---- MODULE Spec2Model ----
(***************************************************************************)
(* hyperglass front end (hyperglass/hyperglass.py): the /query pipeline    *)
(* hyperglass_main with its rate limiter, Redis cache and Prometheus       *)
(* counters, the site route, the exception handlers and clear_cache.       *)
(*                                                                         *)
(* Requests run concurrently as coroutines: the code between two awaits is *)
(* one atomic step, and each await (a Redis call, the backend call) is a   *)
(* point where other requests, the clock and clear_cache may run.          *)
(***************************************************************************)
EXTENDS Integers, Sequences, FiniteSets, TLC

\* ------------------------------------------------------------ bounds ----

\* Configuration, at small values.
\* params.features.cache.timeout, in clock ticks (seconds).
cache_timeout == 1

\* params.features.rate_limit.query.rate / .site.rate ("N per period").
query_rate == 1
site_rate == 1

\* The requests in flight at once (connections, reused).
Reqs == {1, 2}

\* Remote addresses (get_remote_address).
Clients == {"c1"}

\* ------------------------------------------------------------ values ----

\* Python's None (also what GET answers for a key that is not in the store).
None == "None"

\* The TTL of a key that has none: what SET leaves and TTL reports as -1.
NoTTL == -1

\* devices.hostnames and Supported.is_supported_query, as configured.
hostnames == {"router1"}
supported_query_types == {"bgp_route"}

\* params.messages.*
no_input == "no_input"
request_timeout == "request_timeout"

\* JSON bodies of POST /query: a JSON object is an ordered list of items
\* (request.json is a dict, which keeps the order of the body).
BodyA == << <<"target", "8.8.8.8">>, <<"location", "router1">>, <<"query_type", "bgp_route">> >>
BodyB == << <<"location", "router1">>, <<"target", "8.8.8.8">>, <<"query_type", "bgp_route">> >>
BodyNoTarget == << <<"target", "">>, <<"location", "router1">>, <<"query_type", "bgp_route">> >>
BodyBadLocation == << <<"target", "8.8.8.8">>, <<"location", "nowhere">>, <<"query_type", "bgp_route">> >>
BodyBadQuery == << <<"target", "8.8.8.8">>, <<"location", "router1">>, <<"query_type", "bogus">> >>

Bodies == {BodyA, BodyB, BodyNoTarget, BodyBadLocation, BodyBadQuery}

\* lg_data["name"]
Lookup(d, name) == d[CHOOSE i \in 1..Len(d) : d[i][1] = name][2]

\* The field values of a body, whatever their order.
FieldsOf(d) == {d[i] : i \in 1..Len(d)}

\* str(x) of a string is the string itself.
Str(v) == v

\* str(lg_data) of a dict renders its items in the dict's own order:
\* "{'target': '8.8.8.8', 'location': 'router1', ...}".
RECURSIVE StrDict(_)
StrDict(d) == IF d = << >> THEN << >> ELSE <<d[1][1], Str(d[1][2])>> \o StrDict(Tail(d))

cache_key(d) == StrDict(d)

Keys == {cache_key(d) : d \in Bodies}

\* Python truth value of a string or None: `not x`.
Falsy(v) == v = None \/ v = ""

\* A location check that lets every location through.
LocationOk_Any(d) == TRUE

\* The three checks of hyperglass_main, in the order of the code.
TargetOk(d) == ~Falsy(Lookup(d, "target"))
LocationOk(d) == Lookup(d, "location") \in hostnames
QueryTypeOk(d) == Lookup(d, "query_type") \in supported_query_types
Valid(d) == TargetOk(d) /\ LocationOk(d) /\ QueryTypeOk(d)

\* What Execute(lg_data).response() can do: return a payload (possibly an
\* empty one) or raise one of the typed errors caught at lines 265-271.
Payloads == {"P1", "P2", ""}
BackendErrors == {"AuthError", "RestError", "ScrapeError", "InputInvalid", "InputNotAllowed"}

\* backend_error.__dict__(): the status, message and keywords of the error.
ErrorDict(e) == [status |-> IF e \in {"InputInvalid", "InputNotAllowed"} THEN 400 ELSE 500,
                 message |-> e,
                 keywords |-> <<e>>]

\* A limit that is off by one: admits the hit after the rate is used up.
LimitAdmits_Late(n, rate) == n <= rate

\* "N per period" (sanic_limiter, fixed window): the hit is counted, and
\* admitted when the count including it is within the rate.
LimitAdmits(n, rate) == n + 1 <= rate

Min(a, b) == IF a < b THEN a ELSE b

NoEntry == [present |-> FALSE, value |-> None, ttl |-> NoTTL]

Counters == {"count_data", "count_errors", "count_ratelimit", "count_notfound"}
NoCounts == [c \in Counters |-> 0]

NoResponse == [status |-> 0, output |-> None, keywords |-> << >>]

\* Sanic's default error handler: an exception no handler is registered for
\* (here the TypeError of `raise <coroutine>`) becomes a plain 500.
InternalServerError == [status |-> 500, output |-> "Internal Server Error", keywords |-> << >>]

VARIABLES
    pc,            \* per request: where the coroutine stands
    client,        \* per request: get_remote_address(request)
    route,         \* per request: "/query" or "/"
    lg_data,       \* per request: request.json
    first_get,     \* per request: what the presence check (line 258) read
    cache_value,   \* per request: the backend's payload (line 264)
    response,      \* per request: the response sent
    did,           \* per request: the pipeline steps it has performed
    counted,       \* per request: its increments of each Prometheus counter
    nth,           \* per request: its rank among its client's hits in the window
                   \* (kept until the handler starts or the rejection is sent)
    saw,           \* per request: what had become of its key when it checked
                   \* (kept until the backend call returns)
    pre,           \* per request: at the check, a completed entry held its field values
    r_cache,       \* Redis cache db: key -> entry
    limiter,       \* limiter storage: client -> scope -> hits in the window
    age,           \* per key: ticks since the entry's TTL was attached
    gone,          \* per key: how its last entry left the store, if it has
    completed,     \* per key: a request has returned 200 with the entry's value
    cleared        \* what the last clear_cache() call is about to hand its caller

vars == <<pc, client, route, lg_data, first_get, cache_value, response, did,
          counted, nth, saw, pre, r_cache, limiter, age, gone, completed, cleared>>

reqvars == <<pc, client, route, lg_data, first_get, cache_value, response, did,
             counted, nth, saw, pre>>

Init ==
    /\ pc = [r \in Reqs |-> "idle"]
    /\ client = [r \in Reqs |-> "c1"]
    /\ route = [r \in Reqs |-> "/query"]
    /\ lg_data = [r \in Reqs |-> BodyA]
    /\ first_get = [r \in Reqs |-> None]
    /\ cache_value = [r \in Reqs |-> None]
    /\ response = [r \in Reqs |-> NoResponse]
    /\ did = [r \in Reqs |-> {}]
    /\ counted = [r \in Reqs |-> NoCounts]
    /\ nth = [r \in Reqs |-> 0]
    /\ saw = [r \in Reqs |-> "unchecked"]
    /\ pre = [r \in Reqs |-> FALSE]
    /\ r_cache = [k \in Keys |-> NoEntry]
    /\ limiter = [c \in Clients |-> [s \in {"query", "site"} |-> 0]]
    /\ age = [k \in Keys |-> 0]
    /\ gone = [k \in Keys |-> "never"]
    /\ completed = [k \in Keys |-> FALSE]
    /\ cleared = None

\* r_cache.get(key)
redis_get(k) == IF r_cache[k].present THEN r_cache[k].value ELSE None

\* ---------------------------------------------------- Redis commands ----

\* A SET that stores one fixed value whatever it is given.
redis_set_fixed(k, v) == [r_cache EXCEPT ![k] = [present |-> TRUE, value |-> "P1", ttl |-> NoTTL]]

\* SET key value: stores the value and discards any TTL the key had.
redis_set(k, v) == [r_cache EXCEPT ![k] = [present |-> TRUE, value |-> v, ttl |-> NoTTL]]

\* An expire that attaches a second too many.
redis_expire_late(k, t) == IF r_cache[k].present THEN [r_cache EXCEPT ![k].ttl = t + 1] ELSE r_cache

\* EXPIRE key seconds: attaches the TTL to a key that exists; no effect on one
\* that does not.
redis_expire(k, t) == IF r_cache[k].present THEN [r_cache EXCEPT ![k].ttl = t] ELSE r_cache

\* A flush that removes only the keys that have a TTL.
redis_flushdb_expiring == [k \in Keys |-> IF r_cache[k].ttl = NoTTL THEN r_cache[k] ELSE NoEntry]

\* FLUSHDB
redis_flushdb == [k \in Keys |-> NoEntry]

\* One second passes: every TTL runs down, a key whose TTL runs out is gone.
redis_tick == [k \in Keys |->
                 IF r_cache[k].present /\ r_cache[k].ttl # NoTTL
                 THEN IF r_cache[k].ttl - 1 <= 0 THEN NoEntry
                      ELSE [r_cache[k] EXCEPT !.ttl = r_cache[k].ttl - 1]
                 ELSE r_cache[k]]

\* ------------------------------------------------- exception handlers ----

\* A rejection that is also counted as a query.
handle_429_as_query(r) ==
    /\ counted' = [counted EXCEPT ![r] = [NoCounts EXCEPT !["count_ratelimit"] = 1,
                                                          !["count_data"] = 1]]
    /\ response' = [response EXCEPT ![r] =
                      [status |-> 429, output |-> "ratelimit-site", keywords |-> << >>]]

\* handle_429: counts the rejection and renders the rate-limit page.
handle_429(r) ==
    /\ counted' = [counted EXCEPT ![r] = [NoCounts EXCEPT !["count_ratelimit"] = 1]]
    /\ response' = [response EXCEPT ![r] =
                      [status |-> 429, output |-> "ratelimit-site", keywords |-> << >>]]

\* An error handler that does not count the error.
handle_ui_errors_uncounted(r, error) ==
    /\ UNCHANGED counted
    /\ response' = [response EXCEPT ![r] =
                      [status |-> error.status, output |-> error.message,
                       keywords |-> error.keywords]]

\* An error handler that drops the keywords of the error.
handle_ui_errors_no_keywords(r, error) ==
    /\ counted' = [counted EXCEPT ![r]["count_errors"] = @ + 1]
    /\ response' = [response EXCEPT ![r] =
                      [status |-> error.status, output |-> error.message,
                       keywords |-> << >>]]

\* handle_ui_errors, run by Sanic for a raised InvalidUsage(error).
handle_ui_errors(r, error) ==
    /\ counted' = [counted EXCEPT ![r]["count_errors"] = @ + 1]
    /\ response' = [response EXCEPT ![r] =
                      [status |-> error.status, output |-> error.message,
                       keywords |-> error.keywords]]

\* `raise handle_missing(request, msg)` and `raise handle_ui_errors(request,
\* msg)`: the call of an async def only makes a coroutine object, and raising
\* an object that is no exception is a TypeError; the handler's body never
\* runs and Sanic answers the TypeError with its default 500.
raise_coroutine(r) ==
    /\ response' = [response EXCEPT ![r] = InternalServerError]

\* ------------------------------------------------------------ requests ----

\* No response is waiting to be sent. A finished request touches nothing any
\* more: its response is sent (deliver) before anything else moves, which
\* loses no behaviour of the program and keeps one finished request in view.
\* The same holds for a clear_cache() call that is handing over its result.
Quiet == cleared = None /\ \A q \in Reqs : pc[q] # "done"

\* A request arrives for a route with a limit: the limiter middleware counts
\* the hit for (client, scope) before the handler runs.
Arrive(r, c, rt, d) ==
    /\ Quiet
    /\ pc[r] = "idle"
    /\ \A q \in Reqs : q < r => pc[q] # "idle"
    /\ client' = [client EXCEPT ![r] = c]
    /\ route' = [route EXCEPT ![r] = rt]
    /\ lg_data' = [lg_data EXCEPT ![r] = d]
    /\ first_get' = [first_get EXCEPT ![r] = None]
    /\ cache_value' = [cache_value EXCEPT ![r] = None]
    /\ did' = [did EXCEPT ![r] = {}]
    /\ saw' = [saw EXCEPT ![r] = "unchecked"]
    /\ pre' = [pre EXCEPT ![r] = FALSE]

\* POST /query, @limiter.limit(rate_limit_query): admitted to hyperglass_main
\* or rejected with RateLimitExceeded (handle_429). The window's hit count is
\* kept up to rate + 1: every hit beyond the rate is rejected alike.
query(r) ==
    \E c \in Clients, d \in Bodies :
        LET n == limiter[c]["query"] IN
        /\ Arrive(r, c, "/query", d)
        /\ limiter' = [limiter EXCEPT ![c]["query"] = Min(n + 1, query_rate + 1)]
        /\ nth' = [nth EXCEPT ![r] = Min(n + 1, query_rate + 1)]
        /\ IF LimitAdmits(n, query_rate)
           THEN /\ pc' = [pc EXCEPT ![r] = "validate"]
                /\ counted' = [counted EXCEPT ![r] = NoCounts]
                /\ response' = [response EXCEPT ![r] = NoResponse]
           ELSE /\ pc' = [pc EXCEPT ![r] = "done"]
                /\ handle_429(r)
        /\ UNCHANGED <<r_cache, age, gone, completed, cleared>>

\* GET /, @limiter.limit(rate_limit_site): the form page, or handle_429.
site(r) ==
    \E c \in Clients :
        LET n == limiter[c]["site"] IN
        /\ Arrive(r, c, "/", << >>)
        /\ limiter' = [limiter EXCEPT ![c]["site"] = Min(n + 1, site_rate + 1)]
        /\ nth' = [nth EXCEPT ![r] = Min(n + 1, site_rate + 1)]
        /\ pc' = [pc EXCEPT ![r] = "done"]
        /\ IF LimitAdmits(n, site_rate)
           THEN /\ counted' = [counted EXCEPT ![r] = NoCounts]
                /\ response' = [response EXCEPT ![r] =
                                  [status |-> 200, output |-> "form", keywords |-> << >>]]
           ELSE handle_429(r)
        /\ UNCHANGED <<r_cache, age, gone, completed, cleared>>

\* hyperglass_main, lines 219-255: the three input checks, then the query
\* counter, the cache key and the timeout. No await: one step.
validate(r) ==
    /\ Quiet
    /\ pc[r] = "validate"
    /\ did' = [did EXCEPT ![r] = @ \cup {"validate"}]
    /\ IF ~TargetOk(lg_data[r]) \/ ~LocationOk(lg_data[r]) \/ ~QueryTypeOk(lg_data[r])
       THEN /\ raise_coroutine(r)
            /\ pc' = [pc EXCEPT ![r] = "done"]
            /\ UNCHANGED counted
       ELSE /\ counted' = [counted EXCEPT ![r]["count_data"] = @ + 1]
            /\ pc' = [pc EXCEPT ![r] = "check"]
            /\ UNCHANGED response
    /\ nth' = [nth EXCEPT ![r] = 0]
    /\ UNCHANGED <<client, route, lg_data, first_get, cache_value, saw, pre,
                   r_cache, limiter, age, gone, completed, cleared>>

\* Whether the cache holds an entry for the field values of d whose value a
\* request has already returned with status 200.
CompletedEntry(d) ==
    \E k \in Keys : /\ r_cache[k].present
                    /\ completed[k]
                    /\ \E d2 \in Bodies : cache_key(d2) = k /\ FieldsOf(d2) = FieldsOf(d)

\* A presence check with single-flight: on a miss it calls the backend only
\* when no other request of the same key is between its miss and its write.
cache_check_single_flight(r) ==
    LET v == redis_get(cache_key(lg_data[r]))
        in_flight == \E q \in Reqs \ {r} :
                        /\ pc[q] \in {"execute", "set", "expire"}
                        /\ cache_key(lg_data[q]) = cache_key(lg_data[r])
    IN
    /\ Quiet
    /\ pc[r] = "check"
    /\ did' = [did EXCEPT ![r] = @ \cup {"check"}]
    /\ first_get' = [first_get EXCEPT ![r] = v]
    /\ saw' = [saw EXCEPT ![r] = gone[cache_key(lg_data[r])]]
    /\ pre' = [pre EXCEPT ![r] = CompletedEntry(lg_data[r])]
    /\ pc' = [pc EXCEPT ![r] = IF Falsy(v) /\ ~in_flight THEN "execute" ELSE "fetch"]
    /\ UNCHANGED <<client, route, lg_data, cache_value, response, counted, nth,
                   r_cache, limiter, age, gone, completed, cleared>>

\* Line 258: `if not await r_cache.get(cache_key)`, the presence check.
cache_check(r) ==
    LET v == redis_get(cache_key(lg_data[r])) IN
    /\ Quiet
    /\ pc[r] = "check"
    /\ did' = [did EXCEPT ![r] = @ \cup {"check"}]
    /\ first_get' = [first_get EXCEPT ![r] = v]
    /\ saw' = [saw EXCEPT ![r] = gone[cache_key(lg_data[r])]]
    /\ pre' = [pre EXCEPT ![r] = CompletedEntry(lg_data[r])]
    /\ pc' = [pc EXCEPT ![r] = IF Falsy(v) THEN "execute" ELSE "fetch"]
    /\ UNCHANGED <<client, route, lg_data, cache_value, response, counted, nth,
                   r_cache, limiter, age, gone, completed, cleared>>

\* A backend call that waits while another request of the same key is in its
\* backend call or writing.
execute_waiting(r) ==
    /\ Quiet
    /\ pc[r] = "execute"
    /\ ~\E q \in Reqs \ {r} : /\ pc[q] \in {"execute", "set", "expire"}
                              /\ cache_key(lg_data[q]) = cache_key(lg_data[r])
    /\ did' = [did EXCEPT ![r] = @ \cup {"dispatch"}]
    /\ \/ \E e \in BackendErrors :
            \* except (...) as backend_error: raise InvalidUsage(...)
            /\ handle_ui_errors(r, ErrorDict(e))
            /\ pc' = [pc EXCEPT ![r] = "done"]
            /\ UNCHANGED cache_value
       \/ \E v \in Payloads :
            /\ cache_value' = [cache_value EXCEPT ![r] = v]
            /\ IF Falsy(v)
               THEN \* raise handle_ui_errors(request, params.messages.request_timeout)
                    /\ raise_coroutine(r)
                    /\ pc' = [pc EXCEPT ![r] = "done"]
               ELSE /\ pc' = [pc EXCEPT ![r] = "set"]
                    /\ UNCHANGED response
            /\ UNCHANGED counted
    /\ saw' = [saw EXCEPT ![r] = "unchecked"]
    /\ UNCHANGED <<client, route, lg_data, first_get, nth, pre,
                   r_cache, limiter, age, gone, completed, cleared>>

\* Lines 262-282: `await Execute(lg_data).response()` returns or raises, and
\* the code runs on to the next await.
execute(r) ==
    /\ Quiet
    /\ pc[r] = "execute"
    /\ did' = [did EXCEPT ![r] = @ \cup {"dispatch"}]
    /\ \/ \E e \in BackendErrors :
            \* except (...) as backend_error: raise InvalidUsage(...)
            /\ handle_ui_errors(r, ErrorDict(e))
            /\ pc' = [pc EXCEPT ![r] = "done"]
            /\ UNCHANGED cache_value
       \/ \E v \in Payloads :
            /\ cache_value' = [cache_value EXCEPT ![r] = v]
            /\ IF Falsy(v)
               THEN \* raise handle_ui_errors(request, params.messages.request_timeout)
                    /\ raise_coroutine(r)
                    /\ pc' = [pc EXCEPT ![r] = "done"]
               ELSE /\ pc' = [pc EXCEPT ![r] = "set"]
                    /\ UNCHANGED response
            /\ UNCHANGED counted
    /\ saw' = [saw EXCEPT ![r] = "unchecked"]
    /\ UNCHANGED <<client, route, lg_data, first_get, nth, pre,
                   r_cache, limiter, age, gone, completed, cleared>>

\* Line 285: await r_cache.set(cache_key, str(cache_value))
cache_set(r) ==
    LET k == cache_key(lg_data[r]) IN
    /\ Quiet
    /\ pc[r] = "set"
    /\ did' = [did EXCEPT ![r] = @ \cup {"set"}]
    /\ r_cache' = redis_set(k, Str(cache_value[r]))
    /\ age' = [age EXCEPT ![k] = 0]
    /\ gone' = [gone EXCEPT ![k] = "no"]
    /\ completed' = [completed EXCEPT ![k] = FALSE]
    /\ pc' = [pc EXCEPT ![r] = "expire"]
    /\ UNCHANGED <<client, route, lg_data, first_get, cache_value, response,
                   counted, nth, saw, pre, limiter, cleared>>

\* Line 286: await r_cache.expire(cache_key, cache_timeout)
cache_expire(r) ==
    LET k == cache_key(lg_data[r]) IN
    /\ Quiet
    /\ pc[r] = "expire"
    /\ did' = [did EXCEPT ![r] = @ \cup {"expire"}]
    /\ r_cache' = redis_expire(k, cache_timeout)
    /\ age' = [age EXCEPT ![k] = 0]
    /\ pc' = [pc EXCEPT ![r] = "fetch"]
    /\ UNCHANGED <<client, route, lg_data, first_get, cache_value, response,
                   counted, nth, saw, pre, limiter, gone, completed, cleared>>

\* A second get that also renews the TTL of the entry it reads.
cache_fetch_touching(r) ==
    LET k == cache_key(lg_data[r])
        cache_response == redis_get(k)
    IN
    /\ Quiet
    /\ pc[r] = "fetch"
    /\ did' = [did EXCEPT ![r] = @ \cup {"fetch"}]
    /\ response' = [response EXCEPT ![r] =
                      [status |-> 200, output |-> cache_response, keywords |-> << >>]]
    /\ completed' = [completed EXCEPT ![k] = @ \/ r_cache[k].present]
    /\ r_cache' = redis_expire(k, cache_timeout)
    /\ pc' = [pc EXCEPT ![r] = "done"]
    /\ UNCHANGED <<client, route, lg_data, first_get, cache_value, counted, nth,
                   saw, pre, limiter, age, gone, cleared>>

\* Lines 290-301: the second get, whose answer is the output, status 200.
cache_fetch(r) ==
    LET k == cache_key(lg_data[r])
        cache_response == redis_get(k)
    IN
    /\ Quiet
    /\ pc[r] = "fetch"
    /\ did' = [did EXCEPT ![r] = @ \cup {"fetch"}]
    /\ response' = [response EXCEPT ![r] =
                      [status |-> 200, output |-> cache_response, keywords |-> << >>]]
    /\ completed' = [completed EXCEPT ![k] = @ \/ r_cache[k].present]
    /\ pc' = [pc EXCEPT ![r] = "done"]
    /\ UNCHANGED <<client, route, lg_data, first_get, cache_value, counted, nth,
                   saw, pre, r_cache, limiter, age, gone, cleared>>

\* The response is sent and the request is over.
deliver(r) ==
    /\ pc[r] = "done"
    /\ pc' = [pc EXCEPT ![r] = "idle"]
    /\ client' = [client EXCEPT ![r] = "c1"]
    /\ route' = [route EXCEPT ![r] = "/query"]
    /\ lg_data' = [lg_data EXCEPT ![r] = BodyA]
    /\ first_get' = [first_get EXCEPT ![r] = None]
    /\ cache_value' = [cache_value EXCEPT ![r] = None]
    /\ response' = [response EXCEPT ![r] = NoResponse]
    /\ did' = [did EXCEPT ![r] = {}]
    /\ counted' = [counted EXCEPT ![r] = NoCounts]
    /\ nth' = [nth EXCEPT ![r] = 0]
    /\ saw' = [saw EXCEPT ![r] = "unchecked"]
    /\ pre' = [pre EXCEPT ![r] = FALSE]
    /\ UNCHANGED <<r_cache, limiter, age, gone, completed, cleared>>

\* ------------------------------------------------------- environment ----

\* clear_cache(), lines 189-190: flushdb succeeds and the call returns
\* "Successfully cleared cache".
clear_cache ==
    /\ Quiet
    /\ r_cache' = redis_flushdb
    /\ cleared' = "Successfully cleared cache"
    /\ gone' = [k \in Keys |-> IF r_cache[k].present THEN "flushed" ELSE gone[k]]
    /\ age' = [k \in Keys |-> 0]
    /\ completed' = [k \in Keys |-> FALSE]
    /\ UNCHANGED <<reqvars, limiter>>

\* A failing clear_cache that has flushed all the same.
clear_cache_fails_flushed ==
    /\ Quiet
    /\ r_cache' = redis_flushdb
    /\ cleared' = "HyperglassError"
    /\ UNCHANGED <<reqvars, limiter, age, gone, completed>>

\* clear_cache(), lines 191-194: flushdb raises, the error is logged and
\* HyperglassError is raised to the caller.
clear_cache_fails ==
    /\ Quiet
    /\ cleared' = "HyperglassError"
    /\ UNCHANGED <<reqvars, r_cache, limiter, age, gone, completed>>

\* The caller of clear_cache() has its result (or its exception).
clear_cache_return ==
    /\ cleared # None
    /\ cleared' = None
    /\ UNCHANGED <<reqvars, r_cache, limiter, age, gone, completed>>

\* One second of the Redis clock.
Tick ==
    /\ Quiet
    /\ r_cache' = redis_tick
    /\ gone' = [k \in Keys |-> IF r_cache[k].present /\ ~redis_tick[k].present
                                THEN "expired" ELSE gone[k]]
    /\ age' = [k \in Keys |-> IF redis_tick[k].present /\ redis_tick[k].ttl # NoTTL
                               THEN age[k] + 1 ELSE 0]
    /\ completed' = [k \in Keys |-> completed[k] /\ redis_tick[k].present]
    /\ UNCHANGED <<reqvars, limiter, cleared>>

\* The rate-limit period of a client's window ends.
window_end(c, s) ==
    /\ Quiet
    /\ limiter[c][s] > 0
    /\ limiter' = [limiter EXCEPT ![c][s] = 0]
    /\ UNCHANGED <<reqvars, r_cache, age, gone, completed, cleared>>

Next ==
    \/ \E r \in Reqs : query(r)
    \/ \E r \in Reqs : site(r)
    \/ \E r \in Reqs : validate(r)
    \/ \E r \in Reqs : cache_check(r)
    \/ \E r \in Reqs : execute(r)
    \/ \E r \in Reqs : cache_set(r)
    \/ \E r \in Reqs : cache_expire(r)
    \/ \E r \in Reqs : cache_fetch(r)
    \/ \E r \in Reqs : deliver(r)
    \/ clear_cache
    \/ clear_cache_fails
    \/ clear_cache_return
    \/ Tick
    \/ \E c \in Clients, s \in {"query", "site"} : window_end(c, s)

Spec == Init /\ [][Next]_vars

\* ------------------------------------------------- unreachable store ----

\* hyperglass_main has no try/except around its r_cache calls: when Redis is
\* unreachable the call raises (aredis ConnectionError), the exception leaves
\* the handler, no @app.exception handler is registered for it, and Sanic
\* answers with its default 500. The steps below are the r_cache calls of
\* lines 258, 285, 286 and 291 raising instead of returning.
store_call_raises(r, at, step) ==
    /\ Quiet
    /\ pc[r] = at
    /\ did' = [did EXCEPT ![r] = @ \cup {step}]
    /\ response' = [response EXCEPT ![r] = InternalServerError]
    /\ pc' = [pc EXCEPT ![r] = "done"]
    /\ UNCHANGED <<client, route, lg_data, first_get, cache_value, counted, nth,
                   saw, pre, r_cache, limiter, age, gone, completed, cleared>>

cache_check_fails(r) == store_call_raises(r, "check", "check_failed")
cache_set_fails(r) == store_call_raises(r, "set", "set_failed")
cache_expire_fails(r) == store_call_raises(r, "expire", "expire_failed")
cache_fetch_fails(r) == store_call_raises(r, "fetch", "fetch_failed")

\* The /query pipeline over a Redis that may be unreachable at any call.
NextFail ==
    \/ \E r \in Reqs : query(r)
    \/ \E r \in Reqs : validate(r)
    \/ \E r \in Reqs : cache_check(r)
    \/ \E r \in Reqs : cache_check_fails(r)
    \/ \E r \in Reqs : execute(r)
    \/ \E r \in Reqs : cache_set(r)
    \/ \E r \in Reqs : cache_set_fails(r)
    \/ \E r \in Reqs : cache_expire(r)
    \/ \E r \in Reqs : cache_expire_fails(r)
    \/ \E r \in Reqs : cache_fetch(r)
    \/ \E r \in Reqs : cache_fetch_fails(r)
    \/ \E r \in Reqs : deliver(r)
    \/ Tick
    \/ \E c \in Clients : window_end(c, "query")

SpecFail == Init /\ [][NextFail]_vars

\* ------------------------------------------------------------ fairness ----

\* The next step of request r inside hyperglass_main: the code up to its next
\* await, with the awaited call returning or raising.
step(r) ==
    \/ validate(r)
    \/ cache_check(r) \/ cache_check_fails(r)
    \/ execute(r)
    \/ cache_set(r) \/ cache_set_fails(r)
    \/ cache_expire(r) \/ cache_expire_fails(r)
    \/ cache_fetch(r) \/ cache_fetch_fails(r)

\* The /query pipeline over a store and a backend whose calls all come back.
NextFair ==
    \/ \E r \in Reqs : query(r)
    \/ \E r \in Reqs : step(r)
    \/ \E r \in Reqs : deliver(r)
    \/ \E c \in Clients : window_end(c, "query")

\* The event loop runs every coroutine that is ready, and every awaited store
\* or backend call comes back with a value or an error: a request whose next
\* step is possible again and again takes it, and a finished response is sent.
SpecFair ==
    /\ Init
    /\ [][NextFair]_vars
    /\ \A r \in Reqs : SF_vars(step(r) \/ deliver(r))

\* -------------------------------------------------------------- claims ----

key(r) == cache_key(lg_data[r])

Total(r) == counted[r]["count_data"] + counted[r]["count_errors"]
            + counted[r]["count_ratelimit"] + counted[r]["count_notfound"]

\* C1: a valid request that finds, at its presence check, a cache entry for
\* its field values which an earlier request has returned with status 200,
\* never calls the backend and answers 200 with that cached value.
C1_CacheHitServesCached ==
    \A r \in Reqs :
        pre[r] =>
            /\ "dispatch" \notin did[r]
            /\ pc[r] = "done" =>
                 /\ response[r].status = 200
                 /\ first_get[r] # None
                 /\ response[r].output = first_get[r]

\* A body with an empty target, a location that is not a configured device or
\* a query type that is not supported.
Invalid(d) ==
    \/ Lookup(d, "target") = ""
    \/ Lookup(d, "location") \notin hostnames
    \/ Lookup(d, "query_type") \notin supported_query_types

\* C2: a /query request that fails validation never performs a cache get, set
\* or expire and never calls the backend.
C2_InvalidNeverReachesCache ==
    \A r \in Reqs :
        (pc[r] # "idle" /\ route[r] = "/query" /\ Invalid(lg_data[r])) =>
            did[r] \cap {"check", "dispatch", "set", "expire", "fetch"} = {}

C2_Witness ==
    \E r \in Reqs, q \in Reqs :
        /\ pc[r] = "done" /\ route[r] = "/query"
        /\ Lookup(lg_data[r], "location") \notin hostnames
        /\ "validate" \in did[r]
        /\ pc[q] = "expire"

\* C3: a backend dispatch that returns an empty result ends in a response that
\* is not a 200 and carries the request-timeout message.
C3_EmptyResultIsRequestTimeout ==
    \A r \in Reqs :
        (pc[r] = "done" /\ "dispatch" \in did[r] /\ cache_value[r] = "") =>
            /\ response[r].status # 200
            /\ response[r].output = request_timeout

C5_FlushForcesMiss ==
    /\ \A k \in Keys : gone[k] = "flushed" => ~r_cache[k].present
    /\ \A r \in Reqs :
          saw[r] = "flushed" => (first_get[r] = None /\ pc[r] = "execute")

C5_Witness ==
    \E r \in Reqs :
        /\ saw[r] = "flushed"
        /\ pc[r] = "execute"

\* C6: of one client's submissions to /query within one period, the first
\* query_rate enter hyperglass_main and the next is answered 429.
C6_QueryRateLimit ==
    \A r \in Reqs :
        (route[r] = "/query" /\ nth[r] > 0) =>
            /\ nth[r] <= query_rate => pc[r] = "validate"
            /\ nth[r] = query_rate + 1 => (pc[r] = "done" /\ response[r].status = 429)

C6_Witness ==
    \E r \in Reqs :
        /\ route[r] = "/query"
        /\ nth[r] = query_rate + 1
        /\ pc[r] = "done"
        /\ response[r].status = 429

\* C7: a request rejected by the rate limit (either route) has performed no
\* pipeline step at all, has counted nothing but one count_ratelimit, and is
\* answered 429; every request that has performed a step was admitted.
C7_RejectedDoesNothingElse ==
    \A r \in Reqs :
        /\ (pc[r] = "done" /\ response[r].status = 429) =>
              /\ did[r] = {}
              /\ counted[r] = [NoCounts EXCEPT !["count_ratelimit"] = 1]
        /\ did[r] # {} => counted[r]["count_ratelimit"] = 0

C7_Witness ==
    \E r \in Reqs :
        /\ pc[r] = "done"
        /\ route[r] = "/query"
        /\ Valid(lg_data[r])
        /\ response[r].status = 429

\* C8: a request that missed, got payload P from the backend and wrote it to
\* the cache answers 200 with output P.
C8_MissReturnsFreshValue ==
    \A r \in Reqs :
        (pc[r] = "done" /\ "set" \in did[r]) =>
            /\ response[r].status = 200
            /\ response[r].output = cache_value[r]

\* C9: a request whose presence check found a value answers 200 with exactly
\* that value.
C9_HitReturnsValueSeen ==
    \A r \in Reqs :
        (pc[r] = "done" /\ ~Falsy(first_get[r])) =>
            /\ response[r].status = 200
            /\ response[r].output = first_get[r]

\* How a finished /query request ended.
FailedValidation(r) == "validate" \in did[r] /\ ~Valid(lg_data[r])
FailedTyped(r) == "dispatch" \in did[r] /\ cache_value[r] = None
FailedEmpty(r) == "dispatch" \in did[r] /\ cache_value[r] = ""
Completed(r) == "fetch" \in did[r]
Terminal(r) ==
    /\ pc[r] = "done"
    /\ route[r] = "/query"
    /\ FailedValidation(r) \/ FailedTyped(r) \/ FailedEmpty(r) \/ Completed(r)

\* C10 as stated: every request that ends Completed or Failed (validation,
\* typed backend error, empty result) has incremented exactly one counter.
C10_ExactlyOneIncrement ==
    \A r \in Reqs : Terminal(r) => Total(r) = 1

\* C10 as amended: one increment (count_data) when Completed or failed by an
\* empty result, two (count_data and count_errors) when failed by a typed
\* backend error, none when failed by validation.
C10_IncrementsByOutcome ==
    \A r \in Reqs :
        Terminal(r) =>
            /\ FailedValidation(r) => counted[r] = NoCounts
            /\ (Completed(r) \/ FailedEmpty(r)) =>
                   counted[r] = [NoCounts EXCEPT !["count_data"] = 1]
            /\ FailedTyped(r) =>
                   counted[r] = [NoCounts EXCEPT !["count_data"] = 1, !["count_errors"] = 1]

C10_Witness ==
    \E r \in Reqs :
        /\ Terminal(r)
        /\ FailedTyped(r)
        /\ Total(r) = 2

\* C11: a request whose backend call raised a typed error is not about to
\* call the backend again, and it ends with the response that carries the
\* status, the message and the keywords of one backend error (the message
\* names the error, so the three belong to the error that was raised).
C11_TypedErrorIsRelayed ==
    \A r \in Reqs :
        /\ "dispatch" \in did[r] => pc[r] # "execute"
        /\ (pc[r] = "done" /\ FailedTyped(r)) =>
              /\ did[r] = {"validate", "check", "dispatch"}
              /\ \E e \in BackendErrors :
                    /\ response[r].status = ErrorDict(e).status
                    /\ response[r].output = ErrorDict(e).message
                    /\ response[r].keywords = ErrorDict(e).keywords

C11_Witness ==
    \E r \in Reqs :
        /\ pc[r] = "done"
        /\ FailedTyped(r)
        /\ first_get[r] = None
        /\ response[r] = [status |-> 400, output |-> "InputNotAllowed",
                          keywords |-> <<"InputNotAllowed">>]

\* C12: a request whose cache read (the presence check of line 258) met an
\* unreachable store goes on as on a miss: it does not end before it has
\* called the backend.
C12_ReadFailureIsMiss ==
    \A r \in Reqs :
        "check_failed" \in did[r] => (pc[r] # "done" \/ "dispatch" \in did[r])

\* A request that has computed its cache key (line 251) and not yet ended.
HasKey(r) == pc[r] \in {"check", "execute", "set", "expire", "fetch"}

\* C13: two requests have the same cache key exactly when their target,
\* location and query type are equal, whatever the order of the fields in
\* their bodies.
C13_KeyIgnoresFieldOrder ==
    \A r \in Reqs, q \in Reqs :
        (HasKey(r) /\ HasKey(q)) =>
            ((FieldsOf(lg_data[r]) = FieldsOf(lg_data[q])) <=> (key(r) = key(q)))

\* C14: a /query request that failed one of the three input checks is
\* answered with a 4xx status and the configured no-input message, whichever
\* check it failed.
C14_InvalidGetsNoInput ==
    \A r \in Reqs :
        (pc[r] = "done" /\ route[r] = "/query" /\ "validate" \in did[r]
                        /\ Invalid(lg_data[r])) =>
            /\ response[r].status \in 400..499
            /\ response[r].output = no_input

\* C15: a call of clear_cache has one of two outcomes: it returns its success
\* message and the store holds no entry, or it raises HyperglassError and
\* the store holds exactly what it held before the call.
C15_ClearCacheTwoOutcomes ==
    [][(cleared = None /\ cleared' # None) =>
          \/ /\ cleared' = "Successfully cleared cache"
             /\ \A k \in Keys : ~r_cache'[k].present
          \/ /\ cleared' = "HyperglassError"
             /\ r_cache' = r_cache]_vars

C15_Witness ==
    /\ cleared = "HyperglassError"
    /\ \E k \in Keys : r_cache[k].present /\ r_cache[k].ttl # NoTTL

\* C16: nothing holds a request back for another one: every request whose
\* presence check read a miss calls the backend itself, also while another
\* request of the same key has read its miss and not yet written; so two
\* requests of one key can both be past their backend call before either
\* has written (C16_Witness).
C16_EveryMissDispatches ==
    \A r \in Reqs :
        ("check" \in did[r] /\ first_get[r] = None) =>
            (pc[r] = "execute" \/ "dispatch" \in did[r])

C16_Witness ==
    \E r \in Reqs, q \in Reqs :
        /\ r # q
        /\ pc[r] = "set" /\ pc[q] = "set"
        /\ lg_data[r] = lg_data[q]
        /\ first_get[r] = None /\ first_get[q] = None
        /\ "dispatch" \in did[r] /\ "dispatch" \in did[q]
        /\ ~r_cache[key(r)].present
        /\ gone[key(r)] = "never"

\* C17: a value enters the store only by the set of a request of that key
\* whose backend call returned that value, non-empty; a request whose backend
\* call raised a typed error or returned an empty result performs no set, no
\* expire and no fetch, and its backend step leaves the store as it was.
C17_EntriesOnlyFromSuccess ==
    /\ [](\A r \in Reqs :
            (pc[r] = "done" /\ (FailedTyped(r) \/ FailedEmpty(r))) =>
                did[r] \cap {"set", "expire", "fetch"} = {})
    /\ [][/\ \A k \in Keys :
              (/\ r_cache'[k].present
               /\ ~r_cache[k].present \/ r_cache'[k].value # r_cache[k].value) =>
                  \E r \in Reqs :
                      /\ pc[r] = "set" /\ pc'[r] = "expire"
                      /\ cache_key(lg_data[r]) = k
                      /\ "dispatch" \in did[r]
                      /\ cache_value[r] \in Payloads \ {""}
                      /\ r_cache'[k].value = cache_value[r]
          /\ \A r \in Reqs :
              (pc[r] = "execute" /\ pc'[r] = "done") => r_cache' = r_cache]_vars

C17_Witness ==
    \E r \in Reqs, q \in Reqs :
        /\ pc[r] = "done" /\ FailedEmpty(r)
        /\ pc[q] = "expire"
        /\ key(q) = key(r)
        /\ r_cache[key(q)].present
        /\ r_cache[key(q)].value = "P2"
        /\ cache_value[q] = "P2"

\* C18: a request whose presence check found a value performs no backend
\* call, no set and no expire, and each of its steps (the check, the second
\* get) leaves every entry of the store, value and TTL, as it was.
C18_HitLeavesStoreUnchanged ==
    /\ [](\A r \in Reqs :
            ("check" \in did[r] /\ ~Falsy(first_get[r])) =>
                did[r] \cap {"dispatch", "set", "expire"} = {})
    /\ [][\A r \in Reqs :
            (/\ pc[r] \in {"check", "fetch"}
             /\ pc'[r] \in {"fetch", "done"}
             /\ pc'[r] # pc[r]
             /\ ~Falsy(first_get'[r])) => r_cache' = r_cache]_vars

C18_Witness ==
    \E r \in Reqs :
        /\ pc[r] = "done"
        /\ first_get[r] = "P1"
        /\ did[r] = {"validate", "check", "fetch"}
        /\ response[r].status = 200
        /\ r_cache[key(r)].present
        /\ r_cache[key(r)].ttl = NoTTL

\* C19: an entry of the store has no TTL only while a request of its key is
\* between its set and its expire call, also when store calls fail.
C19_EveryEntryExpires ==
    \A k \in Keys :
        (r_cache[k].present /\ r_cache[k].ttl = NoTTL) =>
            \E r \in Reqs : pc[r] = "expire" /\ cache_key(lg_data[r]) = k

\* C20: every request that has entered hyperglass_main ends: no request stays
\* inside the handler for ever, each is again and again either at the point
\* where its response (200 or an error) is sent or gone.
C20_AdmittedRequestEnds ==
    \A r \in Reqs : []<>(pc[r] \in {"idle", "done"})

C20_Witness ==
    \E r \in Reqs, q \in Reqs :
        /\ r # q
        /\ pc[r] = "done" /\ "fetch" \in did[r]
        /\ pc[q] = "execute"
        /\ key(q) = key(r)

====
